---- MODULE Spec2Model ----
(***************************************************************************)
(* Empathetic code reviewer: code_reviewer.py (EmpathticCodeReviewer,      *)
(* parse_json_input) and the generate flow of app.py (main).               *)
(*                                                                         *)
(* Python str values are TLA+ strings; a character is a string of length   *)
(* one.  Python objects that cross the JSON boundary are records           *)
(* [t, s, items, keys] (see the constructors below).                       *)
(***************************************************************************)
EXTENDS Integers, Sequences, FiniteSets, TLC

VARIABLES
    entry,            \* who runs: "main" (app.py), "parse" (a direct parse_json_input
                      \* call, as in test_example.py), "call" (a direct
                      \* generate_review_report call)
    api_key,          \* the text of the API key field
    pc,               \* position of the run
    json_input,       \* the text handed to parse_json_input
    record,           \* the object json_input was serialised from, or the argument of
                      \* the direct call (Undefined for raw text)
    input_data,       \* result of parse_json_input
    reviewer,         \* TRUE once EmpathticCodeReviewer(api_key) was constructed
    code_snippet,     \* local of generate_review_report
    comments,         \* local of generate_review_report
    severities,       \* local of _generate_empathetic_review
    overall_severity, \* local of _generate_empathetic_review
    system_prompt,    \* local of _generate_empathetic_review
    user_prompt,      \* local of _generate_empathetic_review
    api_calls,        \* sequence of requests sent to client.chat.completions.create
    api_response,     \* what the last request came back with
    review_content,   \* value returned by _generate_empathetic_review
    unique_resources, \* local of _enhance_with_resources
    enhanced_review,  \* value returned by _enhance_with_resources
    final_report,     \* value returned by generate_review_report
    raised,           \* exception leaving the current frame
    displayed,        \* what main() showed in the output column
    trace             \* the steps generate_review_report has completed, in order

vars == <<entry, api_key, pc, json_input, record, input_data, reviewer, code_snippet,
          comments, severities, overall_severity, system_prompt, user_prompt,
          api_calls, api_response, review_content, unique_resources, enhanced_review,
          final_report, raised, displayed, trace>>

(***************************************************************************)
(* Bounds of the model.                                                    *)
(***************************************************************************)
MaxComments == 2

(***************************************************************************)
(* Python str primitives.                                                  *)
(***************************************************************************)
\* s[i:i+1]
CharAt(s, i) == IF 1 <= i /\ i <= Len(s) THEN SubSeq(s, i, i) ELSE ""

Range(f) == {f[i] : i \in DOMAIN f}

\* sub in s
Contains(sub, s) ==
    \E i \in 1..(Len(s) - Len(sub) + 1) : SubSeq(s, i, i + Len(sub) - 1) = sub

ascii_uppercase == "ABCDEFGHIJKLMNOPQRSTUVWXYZ"
ascii_lowercase == "abcdefghijklmnopqrstuvwxyz"

lower_char(c) ==
    IF \E i \in 1..Len(ascii_uppercase) : CharAt(ascii_uppercase, i) = c
    THEN CharAt(ascii_lowercase,
                CHOOSE i \in 1..Len(ascii_uppercase) : CharAt(ascii_uppercase, i) = c)
    ELSE c

RECURSIVE str_lower(_)
str_lower(s) ==
    IF s = "" THEN "" ELSE lower_char(CharAt(s, 1)) \o str_lower(Tail(s))

whitespace == {" ", "\t", "\n", "\r", "\f"}

RECURSIVE str_lstrip(_)
str_lstrip(s) ==
    IF s # "" /\ CharAt(s, 1) \in whitespace THEN str_lstrip(Tail(s)) ELSE s

RECURSIVE str_rstrip(_)
str_rstrip(s) ==
    IF s # "" /\ CharAt(s, Len(s)) \in whitespace
    THEN str_rstrip(SubSeq(s, 1, Len(s) - 1))
    ELSE s

str_strip(s) == str_rstrip(str_lstrip(s))

(***************************************************************************)
(* _assess_comment_severity                                                *)
(***************************************************************************)
harsh_indicators ==
    <<"bad", "terrible", "awful", "stupid", "dumb", "wrong", "never",
      "always", "completely", "totally", "absolutely", "obviously">>

neutral_indicators ==
    <<"could", "might", "consider", "suggest", "perhaps", "maybe",
      "improvement", "better", "optimize">>

\* number of places where sub starts in s
Occurrences(sub, s) ==
    Cardinality({i \in 1..(Len(s) - Len(sub) + 1) : SubSeq(s, i, i + Len(sub) - 1) = sub})

RECURSIVE SumOccurrences(_, _)
SumOccurrences(indicators, text) ==
    IF indicators = <<>> THEN 0
    ELSE Occurrences(Head(indicators), text) + SumOccurrences(Tail(indicators), text)

\* mutant of indicator_count: every occurrence of a keyword counts
indicator_count_occurrences(indicators, text) == SumOccurrences(indicators, text)

\* sum(1 for indicator in indicators if indicator in text)
indicator_count(indicators, text) ==
    Cardinality({i \in DOMAIN indicators : Contains(indicators[i], text)})

severity_of_counts(harsh_count, neutral_count) ==
    IF harsh_count > neutral_count THEN "harsh"
    ELSE IF neutral_count > harsh_count THEN "neutral"
    ELSE "moderate"

_assess_comment_severity(comment) ==
    LET comment_lower == str_lower(comment)
        harsh_count   == indicator_count(harsh_indicators, comment_lower)
        neutral_count == indicator_count(neutral_indicators, comment_lower)
    IN  severity_of_counts(harsh_count, neutral_count)

(***************************************************************************)
(* _get_relevant_resources                                                 *)
(***************************************************************************)
RES_NAMING == "[PEP 8 - Naming Conventions](https://peps.python.org/pep-0008/#naming-conventions)"
RES_PERFORMANCE == "[Python Performance Tips](https://wiki.python.org/moin/PythonSpeed/PerformanceTips)"
RES_COMPREHENSION == "[List Comprehensions - Python Documentation](https://docs.python.org/3/tutorial/datastructures.html#list-comprehensions)"
RES_PROGRAMMING == "[PEP 8 - Programming Recommendations](https://peps.python.org/pep-0008/#programming-recommendations)"
RES_DOCSTRING == "[PEP 257 - Docstring Conventions](https://peps.python.org/pep-0257/)"

_get_relevant_resources(comment, code) ==
    LET comment_lower == str_lower(comment)
        code_lower    == str_lower(code)
    IN  (IF Contains("variable", comment_lower) \/ Contains("naming", comment_lower)
         THEN <<RES_NAMING>> ELSE <<>>)
     \o (IF \/ Contains("efficient", comment_lower)
            \/ Contains("performance", comment_lower)
            \/ Contains("loop", comment_lower)
         THEN <<RES_PERFORMANCE>> ELSE <<>>)
     \o (IF \/ Contains("comprehension", comment_lower)
            \/ Contains("list comprehension", comment_lower)
         THEN <<RES_COMPREHENSION>> ELSE <<>>)
     \o (IF Contains("== true", code_lower) \/ Contains("== false", code_lower)
         THEN <<RES_PROGRAMMING>> ELSE <<>>)
     \o (IF Contains("function", comment_lower)
         THEN <<RES_DOCSTRING>> ELSE <<>>)

(***************************************************************************)
(* _enhance_with_resources                                                 *)
(***************************************************************************)
\* all_resources after the loop over comments (a sequence of str)
RECURSIVE collect_resources(_, _)
collect_resources(comment_list, code) ==
    IF comment_list = <<>> THEN <<>>
    ELSE _get_relevant_resources(Head(comment_list), code)
         \o collect_resources(Tail(comment_list), code)

\* mutant of dict_fromkeys: a repeated link moves to its last position
RECURSIVE keep_last(_)
keep_last(seq) ==
    IF seq = <<>> THEN <<>>
    ELSE IF Head(seq) \in Range(Tail(seq)) THEN keep_last(Tail(seq))
    ELSE <<Head(seq)>> \o keep_last(Tail(seq))

\* list(dict.fromkeys(seq))
RECURSIVE dict_fromkeys(_)
dict_fromkeys(seq) ==
    IF seq = <<>> THEN <<>>
    ELSE LET front == dict_fromkeys(SubSeq(seq, 1, Len(seq) - 1))
             last  == seq[Len(seq)]
         IN  IF last \in Range(front) THEN front ELSE Append(front, last)

RESOURCE_HEADING ==
    "\n\n## Additional Resources\n\nFor further learning, consider reviewing these resources:\n\n"

RECURSIVE resource_lines(_)
resource_lines(resources) ==
    IF resources = <<>> THEN ""
    ELSE "- " \o Head(resources) \o "\n" \o resource_lines(Tail(resources))

resource_section(resources) ==
    IF resources # <<>> THEN RESOURCE_HEADING \o resource_lines(resources) ELSE ""

(***************************************************************************)
(* Python objects: str, int/float (kept as the literal text), the float    *)
(* constants NaN/Infinity/-Infinity, None, bool, list and dict (insertion  *)
(* ordered: keys[i] maps to items[i]).                                     *)
(***************************************************************************)
Undefined   == [t |-> "undefined", s |-> "", items |-> <<>>, keys |-> <<>>]
PyStr(x)    == [t |-> "str", s |-> x, items |-> <<>>, keys |-> <<>>]
PyNum(x)    == [t |-> "number", s |-> x, items |-> <<>>, keys |-> <<>>]
PyConst(x)  == [t |-> "float_constant", s |-> x, items |-> <<>>, keys |-> <<>>]
PyNone      == [t |-> "NoneType", s |-> "", items |-> <<>>, keys |-> <<>>]
PyBool(x)   == [t |-> "bool", s |-> x, items |-> <<>>, keys |-> <<>>]
PyList(xs)  == [t |-> "list", s |-> "", items |-> xs, keys |-> <<>>]
PyDict(ks, vs) == [t |-> "dict", s |-> "", items |-> vs, keys |-> ks]

\* d[k] = v on an insertion-ordered dict
dict_set(ks, vs, k, v) ==
    IF k \in Range(ks)
    THEN [keys |-> ks, items |-> [i \in DOMAIN vs |-> IF ks[i] = k THEN v ELSE vs[i]]]
    ELSE [keys |-> Append(ks, k), items |-> Append(vs, v)]

dict_get(d, k) == d.items[CHOOSE i \in DOMAIN d.keys : d.keys[i] = k]

(***************************************************************************)
(* json.loads as called by parse_json_input (json.decoder, json.scanner):  *)
(* strict string scanning, and the default parse_constant, which accepts   *)
(* NaN, Infinity and -Infinity.  A code point that a TLA+ string cannot    *)
(* hold is written <U+XXXX>.                                               *)
(***************************************************************************)
DecodeError == [ok |-> FALSE, val |-> Undefined, end |-> 0]
Decoded(v, e) == [ok |-> TRUE, val |-> v, end |-> e]

json_whitespace == {" ", "\t", "\n", "\r"}
control_chars == {"\t", "\n", "\r", "\f"}
digits == "0123456789"
hexdigits == "0123456789abcdefABCDEF"
\* the characters U+0020 .. U+007E in code point order (U+0060 cannot be written)
ascii_printable ==
    " !\"#$%&'()*+,-./0123456789:;<=>?@ABCDEFGHIJKLMNOPQRSTUVWXYZ[\\]^_?abcdefghijklmnopqrstuvwxyz{|}~"

IsDigit(c) == c # "" /\ Contains(c, digits)
IsHex(c) == c # "" /\ Contains(c, hexdigits)
HexVal(c) ==
    LET i == CHOOSE k \in 1..Len(hexdigits) : CharAt(hexdigits, k) = c
    IN  IF i <= 16 THEN i - 1 ELSE i - 7

StartsWith(s, i, lit) ==
    i + Len(lit) - 1 <= Len(s) /\ SubSeq(s, i, i + Len(lit) - 1) = lit

RECURSIVE skip_whitespace(_, _)
skip_whitespace(s, i) ==
    IF CharAt(s, i) \in json_whitespace THEN skip_whitespace(s, i + 1) ELSE i

RECURSIVE skip_digits(_, _)
skip_digits(s, i) == IF IsDigit(CharAt(s, i)) THEN skip_digits(s, i + 1) ELSE i

\* NUMBER_RE = (-?(?:0|[1-9]\d*))(\.\d+)?([eE][-+]?\d+)?, part by part: each
\* takes the position reached so far and gives the end of its part (0: no match)
number_sign(s, i) == IF CharAt(s, i) = "-" THEN i + 1 ELSE i

number_int(s, i) ==
    IF CharAt(s, i) = "0" THEN i + 1
    ELSE IF IsDigit(CharAt(s, i)) THEN skip_digits(s, i + 1)
    ELSE 0

number_frac(s, i) ==
    IF i # 0 /\ CharAt(s, i) = "." /\ IsDigit(CharAt(s, i + 1))
    THEN skip_digits(s, i + 2) ELSE i

exponent_digits(s, i, j) == IF IsDigit(CharAt(s, j)) THEN skip_digits(s, j + 1) ELSE i

number_exp(s, i) ==
    IF i # 0 /\ CharAt(s, i) \in {"e", "E"}
    THEN exponent_digits(s, i, IF CharAt(s, i + 1) \in {"+", "-"} THEN i + 2 ELSE i + 1)
    ELSE i

\* NUMBER_RE.match(s, i): the end of the match, or 0
match_number(s, i) == number_exp(s, number_frac(s, number_int(s, number_sign(s, i))))

\* mutant of backslash_escape: the escape letter is kept as it is written
backslash_escape_raw(esc) == esc

\* BACKSLASH[esc] (U+0008 for "b")
backslash_escape(esc) ==
    CASE esc = "n" -> "\n"
      [] esc = "t" -> "\t"
      [] esc = "r" -> "\r"
      [] esc = "f" -> "\f"
      [] esc = "b" -> "<U+0008>"
      [] OTHER -> esc

\* chr of the code point 256 * hi + lo; digits are the four hex digits
code_point_char(hi, lo, hex4) ==
    IF hi = 0 /\ lo >= 32 /\ lo <= 126 /\ lo # 96 THEN CharAt(ascii_printable, lo - 31)
    ELSE IF hi = 0 /\ lo = 9 THEN "\t"
    ELSE IF hi = 0 /\ lo = 10 THEN "\n"
    ELSE IF hi = 0 /\ lo = 12 THEN "\f"
    ELSE IF hi = 0 /\ lo = 13 THEN "\r"
    ELSE "<U+" \o hex4 \o ">"

\* chr(int(s[i:i+4], 16))
unicode_escape(s, i) ==
    code_point_char(16 * HexVal(CharAt(s, i)) + HexVal(CharAt(s, i + 1)),
                    16 * HexVal(CharAt(s, i + 2)) + HexVal(CharAt(s, i + 3)),
                    SubSeq(s, i, i + 3))

\* py_scanstring(s, i, strict=True), i just after the opening quote
RECURSIVE py_scanstring(_, _, _)
py_scanstring(s, i, acc) ==
    LET c == CharAt(s, i) IN
    IF c = "" THEN DecodeError                       \* unterminated string
    ELSE IF c = "\"" THEN Decoded(PyStr(acc), i + 1)
    ELSE IF c \in control_chars THEN DecodeError     \* invalid control character
    ELSE IF c # "\\" THEN py_scanstring(s, i + 1, acc \o c)
    ELSE LET esc == CharAt(s, i + 1) IN
         IF esc = "" THEN DecodeError
         ELSE IF esc = "u"
         THEN IF \A k \in 2..5 : IsHex(CharAt(s, i + k))
              THEN py_scanstring(s, i + 6, acc \o unicode_escape(s, i + 2))
              ELSE DecodeError                       \* invalid \uXXXX escape
         ELSE IF esc \in {"\"", "\\", "/", "b", "f", "n", "r", "t"}
         THEN py_scanstring(s, i + 2, acc \o backslash_escape(esc))
         ELSE DecodeError                            \* invalid \escape

\* scanner.py_make_scanner._scan_once with JSONObject and JSONArray, which call
\* each other: mode "value" is _scan_once at i; mode "pairs" is the loop of
\* JSONObject with i just after the opening quote of a property name and the
\* pairs read so far in ks, vs; mode "array" is the loop of JSONArray with i at
\* the start of an element and the elements read so far in vs.
RECURSIVE scan(_, _, _, _, _, _)

\* JSONObject: d holds the pairs read, q is where the next property name must open
object_name(s, q, d, allow_nan) ==
    IF CharAt(s, q) # "\"" THEN DecodeError
    ELSE scan("pairs", s, q + 1, d.keys, d.items, allow_nan)

\* JSONObject: e is the first non-blank position after a value
object_next(s, e, d, allow_nan) ==
    IF CharAt(s, e) = "}" THEN Decoded(PyDict(d.keys, d.items), e + 1)
    ELSE IF CharAt(s, e) # "," THEN DecodeError
    ELSE object_name(s, skip_whitespace(s, e + 1), d, allow_nan)

\* JSONObject: v is the result of scanning the value of property k
object_value(s, ks, vs, k, v, allow_nan) ==
    IF ~v.ok THEN DecodeError
    ELSE object_next(s, skip_whitespace(s, v.end), dict_set(ks, vs, k, v.val), allow_nan)

\* JSONObject: colon is the first non-blank position after the property name k
object_colon(s, ks, vs, k, colon, allow_nan) ==
    IF CharAt(s, colon) # ":" THEN DecodeError
    ELSE object_value(s, ks, vs, k,
                      scan("value", s, skip_whitespace(s, colon + 1), <<>>, <<>>, allow_nan),
                      allow_nan)

\* JSONObject: k is the result of scanning a property name
object_key(s, ks, vs, k, allow_nan) ==
    IF ~k.ok THEN DecodeError
    ELSE object_colon(s, ks, vs, k.val.s, skip_whitespace(s, k.end), allow_nan)

\* JSONArray: e is the first non-blank position after an element, vs the elements
array_next(s, e, vs, allow_nan) ==
    IF CharAt(s, e) = "]" THEN Decoded(PyList(vs), e + 1)
    ELSE IF CharAt(s, e) # "," THEN DecodeError
    ELSE scan("array", s, skip_whitespace(s, e + 1), <<>>, vs, allow_nan)

\* JSONArray: v is the result of scanning an element
array_value(s, vs, v, allow_nan) ==
    IF ~v.ok THEN DecodeError
    ELSE array_next(s, skip_whitespace(s, v.end), Append(vs, v.val), allow_nan)

\* JSONObject: j is the first non-blank position after the brace
object_open(s, j, allow_nan) ==
    IF CharAt(s, j) = "}" THEN Decoded(PyDict(<<>>, <<>>), j + 1)
    ELSE object_name(s, j, [keys |-> <<>>, items |-> <<>>], allow_nan)

\* JSONArray: j is the first non-blank position after the bracket
array_open(s, j, allow_nan) ==
    IF CharAt(s, j) = "]" THEN Decoded(PyList(<<>>), j + 1)
    ELSE scan("array", s, j, <<>>, <<>>, allow_nan)

\* _scan_once for a number or a float constant; m is NUMBER_RE.match(s, i)
scan_number(s, i, m, allow_nan) ==
    IF m # 0 THEN Decoded(PyNum(SubSeq(s, i, m - 1)), m)
    ELSE IF allow_nan /\ StartsWith(s, i, "NaN") THEN Decoded(PyConst("NaN"), i + 3)
    ELSE IF allow_nan /\ StartsWith(s, i, "Infinity") THEN Decoded(PyConst("Infinity"), i + 8)
    ELSE IF allow_nan /\ StartsWith(s, i, "-Infinity")
    THEN Decoded(PyConst("-Infinity"), i + 9)
    ELSE DecodeError

\* _scan_once at i, where the character c stands
scan_value(s, i, c, allow_nan) ==
    IF c = "" THEN DecodeError
    ELSE IF c = "\"" THEN py_scanstring(s, i + 1, "")
    ELSE IF c = "{" THEN object_open(s, skip_whitespace(s, i + 1), allow_nan)
    ELSE IF c = "[" THEN array_open(s, skip_whitespace(s, i + 1), allow_nan)
    ELSE IF StartsWith(s, i, "null") THEN Decoded(PyNone, i + 4)
    ELSE IF StartsWith(s, i, "true") THEN Decoded(PyBool("true"), i + 4)
    ELSE IF StartsWith(s, i, "false") THEN Decoded(PyBool("false"), i + 5)
    ELSE scan_number(s, i, match_number(s, i), allow_nan)

scan(mode, s, i, ks, vs, allow_nan) ==
    CASE mode = "pairs" -> object_key(s, ks, vs, py_scanstring(s, i, ""), allow_nan)
      [] mode = "array" ->
            array_value(s, vs, scan("value", s, i, <<>>, <<>>, allow_nan), allow_nan)
      [] OTHER -> scan_value(s, i, CharAt(s, i), allow_nan)

scan_once(s, i, allow_nan) == scan("value", s, i, <<>>, <<>>, allow_nan)

\* JSONDecoder.decode, given the result r of raw_decode: nothing but whitespace
\* may follow the value
decode_end(s, r) ==
    IF ~r.ok THEN DecodeError
    ELSE IF skip_whitespace(s, r.end) # Len(s) + 1 THEN DecodeError   \* extra data
    ELSE r

\* JSONDecoder.decode: one value between optional whitespace, else JSONDecodeError
decode(s, allow_nan) == decode_end(s, scan_once(s, skip_whitespace(s, 1), allow_nan))

json_loads(s) == decode(s, TRUE)

(***************************************************************************)
(* json.dumps(obj, indent=2): ensure_ascii and allow_nan as by default, one *)
(* item per line, "," between items and ": " after a key.                  *)
(***************************************************************************)
escape_char(c) ==
    CASE c = "\"" -> "\\\""
      [] c = "\\" -> "\\\\"
      [] c = "\n" -> "\\n"
      [] c = "\r" -> "\\r"
      [] c = "\t" -> "\\t"
      [] c = "\f" -> "\\f"
      [] OTHER -> c

RECURSIVE escape_string(_)
escape_string(s) ==
    IF s = "" THEN "" ELSE escape_char(CharAt(s, 1)) \o escape_string(Tail(s))

encode_basestring(s) == "\"" \o escape_string(s) \o "\""

\* "\n" + " " * (2 * level)
RECURSIVE newline_indent(_)
newline_indent(level) == IF level = 0 THEN "\n" ELSE newline_indent(level - 1) \o "  "

\* _iterencode: mode "value" encodes v at the nesting level; mode "items" encodes
\* the remaining vs of a list, mode "pairs" the remaining ks, vs of a dict
RECURSIVE iterencode(_, _, _, _, _)
iterencode(mode, v, ks, vs, level) ==
    CASE mode = "items" ->
            IF vs = <<>> THEN ""
            ELSE iterencode("value", Head(vs), <<>>, <<>>, level)
                 \o (IF Len(vs) > 1 THEN "," \o newline_indent(level) ELSE "")
                 \o iterencode("items", v, <<>>, Tail(vs), level)
      [] mode = "pairs" ->
            IF vs = <<>> THEN ""
            ELSE encode_basestring(Head(ks)) \o ": "
                 \o iterencode("value", Head(vs), <<>>, <<>>, level)
                 \o (IF Len(vs) > 1 THEN "," \o newline_indent(level) ELSE "")
                 \o iterencode("pairs", v, Tail(ks), Tail(vs), level)
      [] mode = "value" /\ v.t = "str" -> encode_basestring(v.s)
      [] mode = "value" /\ v.t = "NoneType" -> "null"
      [] mode = "value" /\ v.t = "list" ->
            IF v.items = <<>> THEN "[]"
            ELSE "[" \o newline_indent(level + 1)
                 \o iterencode("items", v, <<>>, v.items, level + 1)
                 \o newline_indent(level) \o "]"
      [] mode = "value" /\ v.t = "dict" ->
            IF v.keys = <<>> THEN "{}"
            ELSE "{" \o newline_indent(level + 1)
                 \o iterencode("pairs", v, v.keys, v.items, level + 1)
                 \o newline_indent(level) \o "}"
      [] OTHER -> v.s

json_dumps(v) == iterencode("value", v, <<>>, <<>>, 0)

(***************************************************************************)
(* parse_json_input                                                        *)
(***************************************************************************)
NoException == [type |-> "none", msg |-> ""]
Exc(type, msg) == [type |-> type, msg |-> msg]

\* lines 189-193, given the outcome r of json.loads
parse_result(r) ==
    IF r.ok THEN [data |-> r.val, raised |-> NoException]
    ELSE [data |-> Undefined,
          raised |-> Exc("ValueError", "Invalid JSON format: JSONDecodeError")]

parse_json_input(json_string) == parse_result(json_loads(json_string))

(***************************************************************************)
(* Python object protocol, as far as the flow uses it.                     *)
(***************************************************************************)
type_name(v) ==
    CASE v.t = "number" ->
            IF Contains(".", v.s) \/ Contains("e", v.s) \/ Contains("E", v.s)
            THEN "float" ELSE "int"
      [] v.t = "float_constant" -> "float"
      [] OTHER -> v.t

\* bool(v)
truthy(v) ==
    CASE v.t = "str" -> v.s # ""
      [] v.t = "list" -> v.items # <<>>
      [] v.t = "dict" -> v.keys # <<>>
      [] v.t = "NoneType" -> FALSE
      [] v.t = "bool" -> v.s = "true"
      [] v.t = "number" -> \E i \in 1..Len(v.s) : CharAt(v.s, i) \in {"1", "2", "3", "4", "5", "6", "7", "8", "9"}
      [] OTHER -> TRUE

is_iterable(v) == v.t \in {"str", "list", "dict"}

RECURSIVE str_chars(_)
str_chars(s) == IF s = "" THEN <<>> ELSE <<PyStr(CharAt(s, 1))>> \o str_chars(Tail(s))

\* list(v)
py_iter(v) ==
    CASE v.t = "list" -> v.items
      [] v.t = "str" -> str_chars(v.s)
      [] v.t = "dict" -> [i \in DOMAIN v.keys |-> PyStr(v.keys[i])]
      [] OTHER -> <<>>

\* key in v, for a str key: "ok" with the answer, or the TypeError
py_contains(v, key) ==
    CASE v.t = "dict" -> [raised |-> NoException, result |-> key \in Range(v.keys)]
      [] v.t = "list" -> [raised |-> NoException, result |-> PyStr(key) \in Range(v.items)]
      [] v.t = "str" -> [raised |-> NoException, result |-> Contains(key, v.s)]
      [] OTHER -> [raised |-> Exc("TypeError", "argument of type '" \o type_name(v)
                                               \o "' is not iterable"),
                   result |-> FALSE]

\* v[key], for a str key
py_getitem(v, key) ==
    CASE v.t = "dict" /\ key \in Range(v.keys) ->
            [raised |-> NoException, result |-> dict_get(v, key)]
      [] v.t = "dict" /\ key \notin Range(v.keys) ->
            [raised |-> Exc("KeyError", "'" \o key \o "'"), result |-> Undefined]
      [] v.t = "list" ->
            [raised |-> Exc("TypeError", "list indices must be integers or slices, not str"),
             result |-> Undefined]
      [] v.t = "str" ->
            [raised |-> Exc("TypeError", "string indices must be integers, not 'str'"),
             result |-> Undefined]
      [] OTHER ->
            [raised |-> Exc("TypeError", "'" \o type_name(v) \o "' object is not subscriptable"),
             result |-> Undefined]

no_attribute(v, attr) ==
    Exc("AttributeError", "'" \o type_name(v) \o "' object has no attribute '" \o attr \o "'")

(***************************************************************************)
(* _create_system_prompt                                                   *)
(***************************************************************************)
base_prompt ==
    "You are a senior software engineer and mentor known for your empathetic and educational approach to code reviews. Your goal is to transform critical feedback into constructive, encouraging guidance that helps developers learn and grow.\n\nKey principles:\n1. Always start with something positive or encouraging\n2. Explain the 'why' behind suggestions with clear technical reasoning\n3. Provide concrete, improved code examples\n4. Use inclusive language that builds confidence\n5. Focus on learning opportunities rather than mistakes"

severity_adjustments ==
    [harsh |-> " Pay special attention to softening harsh language and being extra encouraging. The original feedback may have been blunt or discouraging, so focus on building the developer's confidence while still conveying the technical improvement needed.",
     moderate |-> " Maintain a balanced, professional tone while being supportive and educational.",
     neutral |-> " The original feedback was already fairly neutral, so focus on making it more educational and adding the 'why' behind suggestions."]

_create_system_prompt(severity) ==
    base_prompt \o (IF severity \in DOMAIN severity_adjustments
                    THEN severity_adjustments[severity] ELSE "")

(***************************************************************************)
(* max(severities, key=severities.count)                                   *)
(***************************************************************************)
list_count(seq, x) == Cardinality({i \in DOMAIN seq : seq[i] = x})

\* mutant of max_by_count: a later label with the same count replaces the earlier one
RECURSIVE max_by_count_last(_, _)
max_by_count_last(seq, n) ==
    IF n = 1 THEN seq[1]
    ELSE LET best == max_by_count_last(seq, n - 1)
         IN  IF list_count(seq, seq[n]) >= list_count(seq, best) THEN seq[n] ELSE best

\* max over seq[1..n]: the first item whose key is the largest
RECURSIVE max_by_count(_, _)
max_by_count(seq, n) ==
    IF n = 1 THEN seq[1]
    ELSE LET best == max_by_count(seq, n - 1)
         IN  IF list_count(seq, seq[n]) > list_count(seq, best) THEN seq[n] ELSE best

(***************************************************************************)
(* Inputs.                                                                 *)
(***************************************************************************)
CodePool == {"if f == True: pass", "pass"}

CommentPool ==
    {"Bad name",
     "bad bad maybe",
     "comprehension could be better",
     "loop over variable",
     "Naming of function",
     "never \\ \"always\"\n"}

CommentLists == UNION {[1..n -> CommentPool] : n \in 0..MaxComments}

ReviewRecord(code, cs) ==
    PyDict(<<"code_snippet", "review_comments">>,
           <<PyStr(code), PyList([i \in DOMAIN cs |-> PyStr(cs[i])])>>)

ReviewRecords ==
    {ReviewRecord(c, cs) : c \in CodePool, cs \in CommentLists}
    \cup {ReviewRecord("pass", <<"">>), ReviewRecord("x == False", <<"", "Bad name">>)}

IsReviewRecord(v) ==
    /\ v.t = "dict"
    /\ v.keys = <<"code_snippet", "review_comments">>
    /\ v.items[1].t = "str"
    /\ v.items[2].t = "list"
    /\ \A i \in DOMAIN v.items[2].items : v.items[2].items[i].t = "str"

OneComment == PyList(<<PyStr("Bad name")>>)

\* objects of other shapes
OddObjects ==
    {PyDict(<<>>, <<>>),
     PyDict(<<"code_snippet">>, <<PyStr("pass")>>),
     PyDict(<<"review_comments">>, <<OneComment>>),
     PyDict(<<"code_snippet", "review_comments">>, <<PyStr("pass"), PyStr("Bad name")>>),
     PyDict(<<"code_snippet", "review_comments">>, <<PyStr("pass"), PyStr("")>>),
     PyDict(<<"code_snippet", "review_comments">>, <<PyStr("pass"), PyNone>>),
     PyDict(<<"code_snippet", "review_comments">>, <<PyStr("pass"), PyNum("7")>>),
     PyDict(<<"code_snippet", "review_comments">>,
            <<PyStr("pass"), PyDict(<<"Bad name">>, <<PyNum("1")>>)>>),
     PyDict(<<"code_snippet", "review_comments">>, <<PyStr("pass"), PyList(<<PyNum("1")>>)>>),
     PyDict(<<"code_snippet", "review_comments">>,
            <<PyStr("pass"), PyList(<<PyStr("Bad name"), PyNone>>)>>),
     PyDict(<<"code_snippet", "review_comments">>, <<PyNum("1"), OneComment>>),
     PyDict(<<"code_snippet", "review_comments">>, <<PyNone, OneComment>>),
     PyDict(<<"code_snippet", "review_comments">>, <<PyConst("NaN"), OneComment>>),
     PyDict(<<"code_snippet", "review_comments">>, <<PyNum("1"), PyList(<<>>)>>),
     PyDict(<<"code_snippet", "review_comments", "score">>,
            <<PyStr("pass"), OneComment, PyConst("NaN")>>),
     PyDict(<<"review_comments", "code_snippet", "author">>,
            <<PyList(<<PyStr("loop over variable"), PyStr("Naming of function")>>),
              PyStr("if f == True: pass"), PyStr("me")>>),
     PyList(<<PyStr("code_snippet"), PyStr("review_comments")>>),
     PyList(<<PyNum("1"), PyNum("2.5")>>),
     PyStr("code_snippet and review_comments"),
     PyStr("x"),
     PyNum("1"),
     PyNum("0"),
     PyNone,
     PyBool("true"),
     PyConst("NaN"),
     PyConst("-Infinity")}

\* texts one keystroke away from a serialised record
MutationChars == {"\"", "\\", ",", "]", "0"}

Mutations(s) ==
    {SubSeq(s, 1, i - 1) \o SubSeq(s, i + 1, Len(s)) : i \in 1..Len(s)}
    \cup {SubSeq(s, 1, i - 1) \o c \o SubSeq(s, i + 1, Len(s)) :
            i \in 1..Len(s), c \in MutationChars}

BaseText == json_dumps(ReviewRecord("pass", <<"Bad name">>))

RawTexts ==
    Mutations(BaseText)
    \cup {"", "  ", " \n", "NaN", "Infinity", "nul", "tru", "-", "01", "1.", "[1,]",
          "{\"a\": 1,}", "{\"a\" 1}", "{a: 1}", "\"abc", "\"a\tb\"", "\"\\x\"",
          "\"\\u00g1\"", "[1] 2",
          " [1 , -2.5e+3, true, false, null]\n",
          "\"\\u0041\\/\\b\\u00e9\"",
          "{\"code_snippet\": \"\\u0070ass\", \"review_comments\": [\"\\u0062ad\"]}",
          "{\"code_snippet\": 1, \"review_comments\": [\"Bad name\"], \"code_snippet\": \"pass\"}",
          "{\"code_snippet\": \"pass\", \"review_comments\": [\"Bad name\", NaN]}"}

Objects == ReviewRecords \cup OddObjects

Texts ==
    {[text |-> json_dumps(v), record |-> v] : v \in Objects}
    \cup {[text |-> t, record |-> Undefined] : t \in RawTexts}

Inputs ==
    {[entry |-> "main", api_key |-> "sk-test", text |-> x.text, record |-> x.record] :
        x \in Texts}
    \cup {[entry |-> "main", api_key |-> "", text |-> t, record |-> Undefined] :
        t \in {BaseText, ""}}
    \cup {[entry |-> "parse", api_key |-> "", text |-> x.text, record |-> x.record] :
        x \in Texts}
    \cup {[entry |-> "call", api_key |-> "sk-test", text |-> "", record |-> v] :
        v \in OddObjects \cup {ReviewRecord(c, cs) : c \in CodePool,
                                  cs \in {<<>>} \cup {<<x>> : x \in CommentPool}}}

\* what client.chat.completions.create can come back with
ApiOutcomes ==
    {[kind |-> "content", text |-> "\n### Analysis of Comment\n\nGreat start!\n\n## Summary\n "],
     [kind |-> "content", text |-> "ok"],
     [kind |-> "no_content", text |-> ""],
     [kind |-> "raise", text |-> "Rate limit reached"]}

NoResponse == [kind |-> "none", text |-> ""]
NoOutput == [kind |-> "none", text |-> ""]

(***************************************************************************)
(* Initial state: nothing has run yet.                                     *)
(***************************************************************************)
Init ==
    /\ \E x \in Inputs :
          /\ entry = x.entry
          /\ api_key = x.api_key
          /\ json_input = x.text
          /\ record = x.record
    /\ pc = "start"
    /\ input_data = Undefined
    /\ reviewer = FALSE
    /\ code_snippet = Undefined
    /\ comments = Undefined
    /\ severities = <<>>
    /\ overall_severity = ""
    /\ system_prompt = ""
    /\ user_prompt = [code_snippet |-> Undefined, comments |-> ""]
    /\ api_calls = <<>>
    /\ api_response = NoResponse
    /\ review_content = ""
    /\ unique_resources = <<>>
    /\ enhanced_review = ""
    /\ final_report = ""
    /\ raised = NoException
    /\ displayed = NoOutput
    /\ trace = <<>>

(***************************************************************************)
(* generate_review_report: the steps inside its try block.  An exception   *)
(* raised by any of them is caught by "except Exception" and raised again  *)
(* as Exception("Failed to generate review report: ...").                  *)
(***************************************************************************)
MSG_KEYS == "Input must contain 'code_snippet' and 'review_comments' keys"
MSG_COMMENTS == "'review_comments' must be a non-empty list"

report_failure(e) == Exc("Exception", "Failed to generate review report: " \o e.msg)

\* mutant of comments_rejected: only the emptiness of review_comments is checked
comments_rejected_no_isinstance(v) == ~truthy(v)

\* not isinstance(comments, list) or not comments
comments_rejected(v) == v.t # "list" \/ ~truthy(v)

\* the validation block: the exception it raises, and the two locals
validate_input(data) ==
    LET has_code == py_contains(data, "code_snippet")
        has_comments == py_contains(data, "review_comments")
        code == py_getitem(data, "code_snippet")
        comms == py_getitem(data, "review_comments")
        nothing == [code_snippet |-> Undefined, comments |-> Undefined]
    IN  IF has_code.raised # NoException THEN [raised |-> has_code.raised] @@ nothing
        ELSE IF ~has_code.result THEN [raised |-> Exc("ValueError", MSG_KEYS)] @@ nothing
        ELSE IF ~has_comments.result THEN [raised |-> Exc("ValueError", MSG_KEYS)] @@ nothing
        ELSE IF code.raised # NoException THEN [raised |-> code.raised] @@ nothing
        ELSE IF comms.raised # NoException THEN [raised |-> comms.raised] @@ nothing
        ELSE IF comments_rejected(comms.result)
        THEN [raised |-> Exc("ValueError", MSG_COMMENTS)] @@ nothing
        ELSE [raised |-> NoException, code_snippet |-> code.result,
              comments |-> comms.result]

Unchanged_run == UNCHANGED <<entry, api_key, json_input, record>>

Unchanged_review ==
    UNCHANGED <<severities, overall_severity, system_prompt, user_prompt, api_calls,
                api_response, review_content, unique_resources, enhanced_review,
                final_report>>

\* lines 163-170
validate ==
    /\ pc = "validate"
    /\ LET r == validate_input(input_data) IN
       IF r.raised = NoException
       THEN /\ code_snippet' = r.code_snippet
            /\ comments' = r.comments
            /\ raised' = raised
            /\ trace' = Append(trace, "validate")
            /\ pc' = "assess"
       ELSE /\ raised' = report_failure(r.raised)
            /\ pc' = "returned"
            /\ UNCHANGED <<code_snippet, comments, trace>>
    /\ Unchanged_run /\ Unchanged_review
    /\ UNCHANGED <<input_data, reviewer, displayed>>

\* lines 83-84: the severity of every comment, and the overall severity
assess ==
    /\ pc = "assess"
    /\ LET items == py_iter(comments) IN
       IF ~is_iterable(comments)
       THEN /\ raised' = report_failure(Exc("TypeError",
                            "'" \o type_name(comments) \o "' object is not iterable"))
            /\ pc' = "returned"
            /\ UNCHANGED <<severities, overall_severity, trace>>
       ELSE IF \E i \in DOMAIN items : items[i].t # "str"
       THEN /\ raised' = report_failure(no_attribute(
                            items[CHOOSE i \in DOMAIN items :
                                    /\ items[i].t # "str"
                                    /\ \A j \in 1..(i - 1) : items[j].t = "str"],
                            "lower"))
            /\ pc' = "returned"
            /\ UNCHANGED <<severities, overall_severity, trace>>
       ELSE IF items = <<>>
       THEN /\ raised' = report_failure(Exc("ValueError", "max() arg is an empty sequence"))
            /\ pc' = "returned"
            /\ UNCHANGED <<severities, overall_severity, trace>>
       ELSE LET sev == [i \in DOMAIN items |-> _assess_comment_severity(items[i].s)] IN
            /\ severities' = sev
            /\ overall_severity' = max_by_count(sev, Len(sev))
            /\ trace' = Append(trace, "assess")
            /\ raised' = raised
            /\ pc' = "prompt"
    /\ Unchanged_run
    /\ UNCHANGED <<input_data, reviewer, code_snippet, comments, system_prompt,
                   user_prompt, api_calls, api_response, review_content,
                   unique_resources, enhanced_review, final_report, displayed>>

\* lines 86-120: user_prompt is the template; its two fields are what is
\* formatted into it, the code object and json.dumps(comments, indent=2)
build_prompts ==
    /\ pc = "prompt"
    /\ system_prompt' = _create_system_prompt(overall_severity)
    /\ user_prompt' = [code_snippet |-> code_snippet, comments |-> json_dumps(comments)]
    /\ trace' = Append(trace, "prompt")
    /\ pc' = "call_model"
    /\ Unchanged_run
    /\ UNCHANGED <<input_data, reviewer, code_snippet, comments, severities,
                   overall_severity, api_calls, api_response, review_content,
                   unique_resources, enhanced_review, final_report, raised, displayed>>

\* mutant of model_result: a failed request is turned into review text
model_result_fallback(outcome) ==
    IF outcome.kind = "content"
    THEN [raised |-> NoException, content |-> str_strip(outcome.text)]
    ELSE [raised |-> NoException, content |-> "Error generating review: " \o outcome.text]

\* what lines 122-136 do with the outcome of the request
model_result(outcome) ==
    CASE outcome.kind = "content" ->
            [raised |-> NoException, content |-> str_strip(outcome.text)]
      [] outcome.kind = "no_content" ->
            [raised |-> Exc("Exception", "Error generating review: "
                                \o no_attribute(PyNone, "strip").msg),
             content |-> ""]
      [] OTHER ->
            [raised |-> Exc("Exception", "Error generating review: " \o outcome.text),
             content |-> ""]

\* lines 122-136: the one request to the chat-completion endpoint
call_model ==
    /\ pc = "call_model"
    /\ \E outcome \in ApiOutcomes :
          LET r == model_result(outcome) IN
          /\ api_calls' = Append(api_calls, [model |-> "gpt-4", system |-> system_prompt,
                                             user |-> user_prompt])
          /\ api_response' = outcome
          /\ IF r.raised = NoException
             THEN /\ review_content' = r.content
                  /\ trace' = Append(trace, "call_model")
                  /\ raised' = raised
                  /\ pc' = "enhance"
             ELSE /\ raised' = report_failure(r.raised)
                  /\ pc' = "returned"
                  /\ UNCHANGED <<review_content, trace>>
    /\ Unchanged_run
    /\ UNCHANGED <<input_data, reviewer, code_snippet, comments, severities,
                   overall_severity, system_prompt, user_prompt, unique_resources,
                   enhanced_review, final_report, displayed>>

\* mutant of append_resources: the section is put in front of the review
prepend_resources(content, resources) == resource_section(resources) \o content

\* review_content += resource_section
append_resources(content, resources) == content \o resource_section(resources)

\* line 176 (_enhance_with_resources, lines 138-156)
enhance ==
    /\ pc = "enhance"
    /\ LET items == py_iter(comments) IN
       IF items # <<>> /\ code_snippet.t # "str"
       THEN /\ raised' = report_failure(no_attribute(code_snippet, "lower"))
            /\ pc' = "returned"
            /\ UNCHANGED <<unique_resources, enhanced_review, trace>>
       ELSE LET all_resources ==
                    collect_resources([i \in DOMAIN items |-> items[i].s], code_snippet.s)
                unique == dict_fromkeys(all_resources)
            IN  /\ unique_resources' = unique
                /\ enhanced_review' = append_resources(review_content, unique)
                /\ trace' = Append(trace, "enhance")
                /\ raised' = raised
                /\ pc' = "header"
    /\ Unchanged_run
    /\ UNCHANGED <<input_data, reviewer, code_snippet, comments, severities,
                   overall_severity, system_prompt, user_prompt, api_calls,
                   api_response, review_content, final_report, displayed>>

\* the header of line 179, without the memo sign before "Empathetic"
REPORT_HEADER == "# Empathetic Code Review Report\n\n"

\* lines 179-181
add_header ==
    /\ pc = "header"
    /\ final_report' = REPORT_HEADER \o enhanced_review
    /\ trace' = Append(trace, "header")
    /\ pc' = "returned"
    /\ Unchanged_run
    /\ UNCHANGED <<input_data, reviewer, code_snippet, comments, severities,
                   overall_severity, system_prompt, user_prompt, api_calls,
                   api_response, review_content, unique_resources, enhanced_review,
                   raised, displayed>>

(***************************************************************************)
(* Callers.                                                                *)
(***************************************************************************)
Unchanged_locals == UNCHANGED <<code_snippet, comments, trace>>

\* a direct call of parse_json_input (test_example.py, test_json_parsing)
call_parse_json_input ==
    /\ pc = "start" /\ entry = "parse"
    /\ \E r \in {parse_json_input(json_input)} :
          /\ input_data' = r.data
          /\ raised' = r.raised
    /\ pc' = "done"
    /\ Unchanged_run /\ Unchanged_review /\ Unchanged_locals
    /\ UNCHANGED <<reviewer, displayed>>

\* a direct call of EmpathticCodeReviewer(api_key).generate_review_report(record)
call_generate_review_report ==
    /\ pc = "start" /\ entry = "call"
    /\ reviewer' = TRUE
    /\ input_data' = record
    /\ pc' = "validate"
    /\ Unchanged_run /\ Unchanged_review /\ Unchanged_locals
    /\ UNCHANGED <<raised, displayed>>

\* app.py lines 97-112: the live preview of the input column.  Only ValueError is
\* handled there; any other exception ends the script run before the button.
preview_crashes(data) ==
    \/ data.t # "dict"
    \/ /\ "review_comments" \in Range(data.keys)
       /\ ~is_iterable(dict_get(data, "review_comments"))

main_preview ==
    /\ pc = "start" /\ entry = "main"
    /\ \E r \in {parse_json_input(json_input)} :
       IF str_strip(json_input) # "" /\ r.raised = NoException /\ preview_crashes(r.data)
       THEN /\ pc' = "crashed"
            /\ displayed' = [kind |-> "uncaught", text |-> ""]
       ELSE /\ pc' = "button"
            /\ displayed' = displayed
    /\ Unchanged_run /\ Unchanged_review /\ Unchanged_locals
    /\ UNCHANGED <<input_data, reviewer, raised>>

\* disabled=not (api_key and json_input.strip())
button_enabled == api_key # "" /\ str_strip(json_input) # ""

\* app.py lines 161-168: the button was not clicked
main_idle ==
    /\ pc = "button" /\ entry = "main"
    /\ displayed' = [kind |-> "info",
                     text |-> IF api_key = ""
                              THEN "Please enter your OpenAI API key in the sidebar to get started."
                              ELSE IF str_strip(json_input) = ""
                              THEN "Please enter JSON input to generate a review."
                              ELSE "Click 'Generate Empathetic Review' to transform your feedback!"]
    /\ pc' = "done"
    /\ Unchanged_run /\ Unchanged_review /\ Unchanged_locals
    /\ UNCHANGED <<input_data, reviewer, raised>>

\* app.py lines 125-132: the button was clicked; the input is parsed
main_generate ==
    /\ pc = "button" /\ entry = "main"
    /\ button_enabled
    /\ \E r \in {parse_json_input(json_input)} :
       /\ input_data' = r.data
       /\ raised' = r.raised
       /\ pc' = IF r.raised = NoException THEN "construct" ELSE "except"
    /\ Unchanged_run /\ Unchanged_review /\ Unchanged_locals
    /\ UNCHANGED <<reviewer, displayed>>

\* app.py lines 135-140: the reviewer is created and generate_review_report entered
main_construct ==
    /\ pc = "construct" /\ entry = "main"
    /\ reviewer' = TRUE
    /\ pc' = "validate"
    /\ Unchanged_run /\ Unchanged_review /\ Unchanged_locals
    /\ UNCHANGED <<input_data, raised, displayed>>

\* app.py lines 142-153
main_display ==
    /\ pc = "returned" /\ entry = "main"
    /\ raised = NoException
    /\ displayed' = [kind |-> "report", text |-> final_report]
    /\ pc' = "done"
    /\ Unchanged_run /\ Unchanged_review /\ Unchanged_locals
    /\ UNCHANGED <<input_data, reviewer, raised>>

\* the handler main() runs for an exception of the try block of lines 130-159
handler_for(e) == IF e.type = "ValueError" THEN "Input Error" ELSE "Error"

\* app.py lines 155-159
main_except ==
    /\ pc \in {"except", "returned"} /\ entry = "main"
    /\ raised # NoException
    /\ displayed' = [kind |-> handler_for(raised), text |-> raised.msg]
    /\ pc' = "done"
    /\ Unchanged_run /\ Unchanged_review /\ Unchanged_locals
    /\ UNCHANGED <<input_data, reviewer, raised>>

Next ==
    \/ call_parse_json_input
    \/ call_generate_review_report
    \/ main_preview
    \/ main_idle
    \/ main_generate
    \/ main_construct
    \/ validate
    \/ assess
    \/ build_prompts
    \/ call_model
    \/ enhance
    \/ add_header
    \/ main_display
    \/ main_except

Spec == Init /\ [][Next]_vars

(***************************************************************************)
(* Properties.                                                             *)
(***************************************************************************)
SeverityLabels == {"harsh", "neutral", "moderate"}

\* generate_review_report has been entered and has ended
ReportCallEnded == reviewer /\ pc \in {"returned", "done"}

\* the step named step of generate_review_report has completed
Completed(step) == step \in Range(trace)

\* the comment texts, once validation and the severity pass have accepted them
CommentTexts == [i \in DOMAIN py_iter(comments) |-> py_iter(comments)[i].s]

\* the input has both keys and a non-empty list of comments
HasBothKeys(d) ==
    d.t = "dict" /\ "code_snippet" \in Range(d.keys) /\ "review_comments" \in Range(d.keys)

NonEmptyCommentList(d) ==
    /\ HasBothKeys(d)
    /\ dict_get(d, "review_comments").t = "list"
    /\ dict_get(d, "review_comments").items # <<>>

\* position of x in seq
IndexOf(seq, x) == CHOOSE i \in DOMAIN seq : seq[i] = x /\ \A j \in 1..(i - 1) : seq[j] # x

\* C1: the resource list appended to the review holds every link at most once,
\* holds exactly the links some comment (or the code sample) triggers, and lists
\* them in the order of their first occurrence when the comments are scanned in
\* list order (within one comment, in the order the function emits them).
C1_ResourcesUniqueInFirstOccurrenceOrder ==
    Completed("enhance") =>
        LET links(i) == _get_relevant_resources(CommentTexts[i], code_snippet.s)
            first(l) == CHOOSE i \in DOMAIN CommentTexts :
                            /\ l \in Range(links(i))
                            /\ \A j \in 1..(i - 1) : l \notin Range(links(j))
            before(a, b) ==
                \/ first(a) < first(b)
                \/ /\ first(a) = first(b)
                   /\ IndexOf(links(first(a)), a) < IndexOf(links(first(a)), b)
        IN  /\ \A a, b \in DOMAIN unique_resources :
                  a # b => unique_resources[a] # unique_resources[b]
            /\ Range(unique_resources) = UNION {Range(links(i)) : i \in DOMAIN CommentTexts}
            /\ \A a, b \in DOMAIN unique_resources :
                  a < b => before(unique_resources[a], unique_resources[b])

\* C1 witness: two comments trigger the naming link, the code sample triggers its
\* link for both, and the second comment adds a link of its own
C1_Witness ==
    /\ Completed("enhance")
    /\ Len(CommentTexts) = 2
    /\ RES_NAMING \in Range(_get_relevant_resources(CommentTexts[1], code_snippet.s))
    /\ RES_NAMING \in Range(_get_relevant_resources(CommentTexts[2], code_snippet.s))
    /\ unique_resources = <<RES_NAMING, RES_PERFORMANCE, RES_PROGRAMMING, RES_DOCSTRING>>

\* C2: the model endpoint is called only for an input with both keys and a
\* non-empty list of comments; for every other input the call of
\* generate_review_report ends in an exception, without a model call or a report.
C2_ModelCalledOnlyForValidShape ==
    /\ api_calls # <<>> => NonEmptyCommentList(input_data)
    /\ (ReportCallEnded /\ ~NonEmptyCommentList(input_data)) =>
          /\ raised # NoException
          /\ api_calls = <<>>
          /\ final_report = ""

\* C2 witness: both keys are present but review_comments is text, and the call
\* has ended in an exception without a request
C2_Witness ==
    /\ ReportCallEnded
    /\ HasBothKeys(input_data)
    /\ dict_get(input_data, "review_comments") = PyStr("Bad name")
    /\ raised.type = "Exception"
    /\ api_calls = <<>>

\* C3: at most one request is sent per invocation; once the request has failed
\* the invocation raises an exception that carries the failure's message, sends
\* no second request and returns no report, full or partial.
C3_SingleCallNoRetryNoPartialReport ==
    /\ Len(api_calls) <= 1
    /\ api_response.kind = "raise" =>
          /\ pc \in {"returned", "done"}
          /\ Len(api_calls) = 1
          /\ raised.type = "Exception"
          /\ Contains(api_response.text, raised.msg)
          /\ enhanced_review = ""
          /\ final_report = ""
          /\ displayed.kind # "report"

\* C3 witness: the request failed and main() has reported the failure
C3_Witness ==
    /\ api_response = [kind |-> "raise", text |-> "Rate limit reached"]
    /\ entry = "main" /\ pc = "done"
    /\ displayed = [kind |-> "Error",
                    text |-> "Failed to generate review report: Error generating review: Rate limit reached"]

\* a text of the JSON grammar (RFC 8259): json.loads without the float
\* constants NaN, Infinity and -Infinity
ValidJSON(text) == decode(text, FALSE).ok

\* parse_json_input has just run on json_input
JustParsed ==
    \/ entry = "parse" /\ pc = "done"
    \/ entry = "main" /\ pc \in {"construct", "except"}

\* C5: malformed JSON is rejected before any review work: parse_json_input raises
\* ValueError for every text that is not valid JSON, and in main() no reviewer is
\* created, no request is sent and no report is shown for such a text.
C5_MalformedJsonRejected ==
    ~ValidJSON(json_input) =>
        /\ JustParsed => raised.type = "ValueError"
        /\ entry = "main" =>
              /\ ~reviewer
              /\ api_calls = <<>>
              /\ displayed.kind # "report"

\* C6: parsing the JSON encoding of a record {code_snippet, review_comments}
\* gives back the code text and the list of comments, same length, same order.
C6_JsonRoundTrip ==
    (entry \in {"parse", "main"} /\ IsReviewRecord(record) /\ JustParsed) =>
        /\ json_input = json_dumps(record)
        /\ raised = NoException
        /\ HasBothKeys(input_data)
        /\ dict_get(input_data, "code_snippet") = dict_get(record, "code_snippet")
        /\ Len(dict_get(input_data, "review_comments").items)
              = Len(dict_get(record, "review_comments").items)
        /\ \A i \in DOMAIN dict_get(record, "review_comments").items :
              dict_get(input_data, "review_comments").items[i]
                 = dict_get(record, "review_comments").items[i]

\* C6 witness: a record with a comment that holds a quote, a newline and a backslash
C6_Witness ==
    /\ entry = "parse" /\ pc = "done"
    /\ record = ReviewRecord("if f == True: pass",
                             <<"never \\ \"always\"\n", "Bad name">>)
    /\ input_data = record

\* the order of the steps of a run that returns a report
StepOrder == <<"validate", "assess", "prompt", "call_model", "enhance", "header">>

\* C7: a successful run has done its steps in the order classify, build prompt,
\* call model, append resources: one request, sent with the system prompt the
\* overall severity fixed; the resources are computed after the request has
\* returned; the report is the header, the model's text (stripped of blanks at
\* both ends), then the resources section when a resource matched.
C7_StepsInFixedOrder ==
    /\ [](trace = SubSeq(StepOrder, 1, Len(trace)))
    /\ [](Completed("call_model") =>
            /\ Len(api_calls) = 1
            /\ overall_severity \in Range(severities)
            /\ api_calls[1].system = base_prompt \o severity_adjustments[overall_severity]
            /\ review_content = str_strip(api_response.text))
    /\ [](final_report # "" =>
            /\ trace = StepOrder
            /\ raised = NoException
            /\ final_report =
                  REPORT_HEADER \o review_content
                  \o (IF unique_resources = <<>> THEN ""
                      ELSE RESOURCE_HEADING \o resource_lines(unique_resources)))
    /\ [][/\ api_calls' # api_calls =>
                /\ trace = SubSeq(StepOrder, 1, 3)
                /\ system_prompt = _create_system_prompt(overall_severity)
                /\ api_calls'[Len(api_calls')].system = system_prompt
          /\ (unique_resources' # unique_resources \/ enhanced_review' # enhanced_review) =>
                /\ trace = SubSeq(StepOrder, 1, 4)
                /\ api_response.kind = "content"
                /\ api_calls' = api_calls]_vars

\* C7 witness: a report with a resources section has been returned
C7_Witness ==
    /\ pc = "returned" /\ raised = NoException
    /\ unique_resources = <<RES_NAMING, RES_PERFORMANCE>>
    /\ final_report = REPORT_HEADER \o "ok" \o RESOURCE_HEADING
                      \o "- " \o RES_NAMING \o "\n- " \o RES_PERFORMANCE \o "\n"

\* generate_review_report turned the input down in its validation block: a
\* required key is missing or review_comments is not a non-empty list
RejectedByValidation ==
    /\ ReportCallEnded
    /\ input_data.t = "dict"
    /\ ~NonEmptyCommentList(input_data)

\* C8: an input rejected by the validation block reaches the caller as a
\* ValueError, and main() reports it through its "Input Error" handler.
C8_ValidationFailureIsValueError ==
    RejectedByValidation =>
        /\ raised.type = "ValueError"
        /\ (entry = "main" /\ pc = "done") => displayed.kind = "Input Error"

\* the number of distinct keywords of a list that occur in a text
DistinctKeywords(indicators, text) ==
    Cardinality({k \in Range(indicators) : Contains(k, text)})

\* C9: the label of a comment compares the number of distinct harsh keywords with
\* the number of distinct neutral keywords found in the lower-cased comment:
\* harsh iff more harsh ones, neutral iff more neutral ones, moderate iff equal.
C9_SeverityComparesDistinctKeywordCounts ==
    Completed("assess") =>
        \A i \in DOMAIN severities :
            LET h == DistinctKeywords(harsh_indicators, str_lower(CommentTexts[i]))
                n == DistinctKeywords(neutral_indicators, str_lower(CommentTexts[i]))
            IN  /\ severities[i] = "harsh" <=> h > n
                /\ severities[i] = "neutral" <=> n > h
                /\ severities[i] = "moderate" <=> h = n

\* C9 witness: a keyword typed with a capital, a keyword that occurs twice next
\* to one neutral keyword
C9_Witness ==
    /\ Completed("assess")
    /\ CommentTexts = <<"Bad name", "bad bad maybe">>
    /\ severities = <<"harsh", "moderate">>

\* number of comments with the label, and the first comment that has it
LabelCount(label) == Cardinality({i \in DOMAIN severities : severities[i] = label})
FirstWith(label) == IndexOf(severities, label)

FailedForShape ==
    /\ ReportCallEnded
    /\ raised # NoException
    /\ api_response.kind \notin {"no_content", "raise"}

\* C11: a call of generate_review_report that fails because of the shape of its
\* input fails before the request: no request to the model has been made in an
\* invocation that rejects its input for its shape.
C11_ShapeFailureBeforeModelCall ==
    FailedForShape => api_calls = <<>>

====
